---- MODULE Spec2Model ----
(***************************************************************************)
(* A model of the react-reconciler host adapter for three.js scene graphs  *)
(* (reconciler source: src/unnamed/part_000, demo: src/src/index.js).      *)
(*                                                                         *)
(* Six state machines share this module:                                   *)
(*   SpecGraph   the structural hooks acting on the scene graph            *)
(*   SpecRoots   render / unmountComponentAtNode and the roots table       *)
(*   SpecProps   createInstance / commitUpdate writing nested fields       *)
(*   SpecFilter  the same two hooks on bags with handler / structural keys *)
(*   SpecStruct  the same two hooks on bags that name parent / children    *)
(*   SpecLoop    the Canvas component: its effects and its render loop     *)
(***************************************************************************)
EXTENDS Integers, Sequences, FiniteSets, TLC

VARIABLES
  children,    \* scene graph: node -> its children array (Object3D.children)
  parent,      \* scene graph: node -> its parent back-reference (Object3D.parent)
  dispatched,  \* the events dispatched by the last hook call, in order
  refList,     \* reference list per parent, driven by the same calls
  refOK,       \* every call so far was one the reconciliation engine issues
  roots,       \* the roots Map: mount target -> root handle, NULL when absent
  created,     \* how many root handles createContainer has returned
  queue,       \* engine: root handle -> the updates scheduled on it, in order
  tree,        \* engine: root handle -> the element tree it has committed
  engineLog,   \* the calls into the reconciliation engine made by the last call
  hist,        \* per target: the run of renders and the last unmount (history)
  heap,        \* object -> its fields: the instance and what is reachable from it
  memo,        \* engine: the property bag last passed for the instance
  status,      \* the instance: "none" before createInstance, "live", "failed" once a call raised
  writes,      \* the field writes of the last applyProps call, in order
  active,      \* Canvas: active.current
  pending,     \* Canvas: frame callbacks requested and not yet run
  frames,      \* Canvas: how many times the render loop has rendered the scene
  phase,       \* Canvas: "unmounted", "mounted" once its effects ran, "torn" after teardown
  last         \* the last call: its name, its arguments, whether it raised

graphVars == <<children, parent, dispatched, refList, refOK>>
rootVars == <<roots, created, queue, tree, engineLog, hist>>
propVars == <<heap, memo, status, writes>>
loopVars == <<active, pending, frames, phase>>
vars == <<graphVars, rootVars, propVars, loopVars, last>>

(***************************************************************************)
(* Bounds.                                                                 *)
(***************************************************************************)
MaxNodes == 4
MaxRoots == 3
MaxPending == 2
MaxBag == 3
MaxFrames == 5

\* A falsy argument (undefined, null): what a component that renders nothing yields.
NULL == 0

Nodes == 1..MaxNodes
\* The scene nodes the hooks are called on as parentInstance: the container and a group.
Parents == {1, 2}

(***************************************************************************)
(* JavaScript array primitives, 0-based as in the source.                  *)
(***************************************************************************)
RECURSIVE IndexFrom(_, _, _)
IndexFrom(s, x, i) ==
  IF i >= Len(s) THEN -1
  ELSE IF s[i + 1] = x THEN i
  ELSE IndexFrom(s, x, i + 1)

\* Array.prototype.indexOf: the first index holding x, or -1.
IndexOf(s, x) == IndexFrom(s, x, 0)

\* A relative index as slice resolves it: negative counts from the end, clamped.
Clamp(s, k) ==
  IF k < 0 THEN (IF Len(s) + k < 0 THEN 0 ELSE Len(s) + k)
  ELSE IF k > Len(s) THEN Len(s) ELSE k

\* Array.prototype.slice(start, end).
Slice(s, start, end) ==
  LET a == Clamp(s, start)
      b == Clamp(s, end)
  IN  IF b <= a THEN <<>> ELSE [i \in 1..(b - a) |-> s[a + i]]

\* Array.prototype.slice(start).
SliceFrom(s, start) == Slice(s, start, Len(s))

\* Array.prototype.splice(index, 1).
Splice1(s, index) == Slice(s, 0, index) \o SliceFrom(s, index + 1)

(***************************************************************************)
(* three.js Object3D.add / Object3D.remove, as called by the hooks.        *)
(* A graph value g is [children, parent, events, raised].                  *)
(***************************************************************************)
Graph(ch, pa) == [children |-> ch, parent |-> pa, events |-> <<>>, raised |-> FALSE]

Raise(g) == [g EXCEPT !.raised = TRUE]

\* this.remove(object): drop the first occurrence, clear the back-reference.
ThreeRemove(g, this, object) ==
  LET index == IndexOf(g.children[this], object)
  IN  IF index # -1
      THEN [g EXCEPT !.parent[object] = NULL,
                     !.events = Append(@, <<object, "removed">>),
                     !.children[this] = Splice1(@, index)]
      ELSE g

\* this.add(object): detach from the old parent, then push at the end.
ThreeAdd(g, this, object) ==
  IF object = this THEN g
  ELSE IF object \notin Nodes THEN g
  ELSE LET g1 == IF g.parent[object] # NULL
                 THEN ThreeRemove(g, g.parent[object], object)
                 ELSE g
       IN  [g1 EXCEPT !.parent[object] = this,
                      !.events = Append(@, <<object, "added">>),
                      !.children[this] = Append(@, object)]

(***************************************************************************)
(* The structural hooks of the host config.                                *)
(***************************************************************************)
\* Faulty variant: the guard on child dropped, parentInstance.add(child) called regardless.
AppendHookUnguarded(g, parentInstance, child) ==
  IF parentInstance = NULL THEN Raise(g)
  ELSE ThreeAdd(g, parentInstance, child)

\* if (child) parentInstance.add(child)
AppendHook(g, parentInstance, child) ==
  IF child # NULL
  THEN IF parentInstance = NULL THEN Raise(g)
       ELSE ThreeAdd(g, parentInstance, child)
  ELSE g

\* if (child) parentInstance.remove(child)
RemoveHook(g, parentInstance, child) ==
  IF child # NULL
  THEN IF parentInstance = NULL THEN Raise(g)
       ELSE ThreeRemove(g, parentInstance, child)
  ELSE g

\* Faulty variant: the rebuilt array puts child after beforeChild (slices taken at index + 1).
InsertBeforeHookAfter(g, parentInstance, child, beforeChild) ==
  IF child # NULL
  THEN LET g1 == [g EXCEPT !.parent[child] = parentInstance,
                           !.events = Append(@, <<child, "added">>)]
       IN  IF parentInstance = NULL THEN Raise(g1)
           ELSE LET index == IndexOf(g1.children[parentInstance], beforeChild)
                IN  [g1 EXCEPT !.children[parentInstance] =
                       Slice(@, 0, index + 1) \o <<child>> \o SliceFrom(@, index + 1)]
  ELSE g

\* child.parent = parentInstance; dispatch 'added'; splice child in at indexOf(beforeChild)
InsertBeforeHook(g, parentInstance, child, beforeChild) ==
  IF child # NULL
  THEN LET g1 == [g EXCEPT !.parent[child] = parentInstance,
                           !.events = Append(@, <<child, "added">>)]
       IN  IF parentInstance = NULL THEN Raise(g1)
           ELSE LET index == IndexOf(g1.children[parentInstance], beforeChild)
                IN  [g1 EXCEPT !.children[parentInstance] =
                       Slice(@, 0, index) \o <<child>> \o SliceFrom(@, index)]
  ELSE g

(***************************************************************************)
(* The reference list of the sibling order invariant: append puts the      *)
(* child at the end, insertBefore puts it immediately before beforeChild,  *)
(* remove deletes it, and every node occurs at most once.                  *)
(***************************************************************************)
Without(s, x) == SelectSeq(s, LAMBDA y : y # x)

InSeq(s, x) == \E i \in 1..Len(s) : s[i] = x

RefAppend(r, p, c) ==
  IF c = NULL THEN r ELSE [r EXCEPT ![p] = Append(Without(@, c), c)]

RefRemove(r, p, c) ==
  IF c = NULL THEN r ELSE [r EXCEPT ![p] = Without(@, c)]

RefInsertBefore(r, p, c, b) ==
  IF c = NULL THEN r
  ELSE LET s == Without(r[p], c)
           i == CHOOSE k \in 1..Len(s) : s[k] = b
       IN  [r EXCEPT ![p] = SubSeq(s, 1, i - 1) \o <<c>> \o SubSeq(s, i, Len(s))]

\* The calls the reconciliation engine issues on a parent: a live parent, a child
\* that is falsy or a node that is detached or already one of this parent's
\* children (a move), and for insertBefore a sibling that is in place.
EngineCall(r, p, c) ==
  /\ p \in Parents
  /\ c # p
  /\ \A q \in Parents \ {p} : ~InSeq(r[q], c)

EngineInsert(r, p, c, b) ==
  /\ EngineCall(r, p, c)
  /\ c = NULL \/ (b # c /\ InSeq(r[p], b))

(***************************************************************************)
(* The roots table and the mount / unmount entry points.                   *)
(*                                                                         *)
(* The reconciliation engine is opaque to the adapter.  createContainer    *)
(* returns a new root handle.  updateContainer schedules an update on a    *)
(* root; the engine performs a root's scheduled updates in order, at once  *)
(* when called from outside its own work and after that work otherwise,    *)
(* and calls each update's callback when it has committed it.              *)
(***************************************************************************)
\* The mount targets: the scene objects render is called with.
Targets == Parents

\* The element trees render is called with.
Elements == {"tree"}

\* The null element unmountComponentAtNode passes: no tree.
NoTree == "null"

Handles == 1..MaxRoots

\* An engine value e is [created, queue, log, raised].
Engine == [created |-> created, queue |-> queue, log |-> <<>>, raised |-> FALSE]

\* Renderer.createContainer(container): a root handle no earlier call returned.
CreateContainer(e, container) ==
  [e EXCEPT !.created = @ + 1,
            !.log = Append(@, <<"createContainer", container>>)]

\* Renderer.updateContainer(element, root, null, callback).
UpdateContainer(e, element, root, callback) ==
  IF root \notin Handles
  THEN [e EXCEPT !.raised = TRUE,
                 !.log = Append(@, <<"updateContainer", root, element>>)]
  ELSE [e EXCEPT !.queue[root] = Append(@, [element |-> element, callback |-> callback]),
                 !.log = Append(@, <<"updateContainer", root, element>>)]

\* Faulty variant: render creates a container whether or not the table has the target.
NoRootAlways(root) == TRUE

\* if (!root) in render
NoRoot(root) == root = NULL

\* Faulty variant: unmountComponentAtNode calls the engine without looking at the table's answer.
HasRootAlways(root) == TRUE

\* if (root) in unmountComponentAtNode
HasRoot(root) == root # NULL

\* Faulty variant: the completion callback leaves the table entry in place.
RootsDeleteNothing(r, container) == r

\* () => roots.delete(container)
RootsDelete(r, container) == [r EXCEPT ![container] = NULL]

\* The callbacks of a root's scheduled updates run in order against the table.
RECURSIVE RunCallbacks(_, _)
RunCallbacks(r, q) ==
  IF q = <<>> THEN r
  ELSE LET r1 == IF Head(q).callback # NULL THEN RootsDelete(r, Head(q).callback) ELSE r
       IN  RunCallbacks(r1, Tail(q))

Callbacks(q) == {q[i].callback : i \in 1..Len(q)} \ {NULL}

\* History of a target, kept for the claims.  The run of consecutive renders since
\* the last unmount call or completion notification: whether there was one,
\* whether the table had no entry when the run began, the containers created
\* and the roots passed to updateContainer in it.  The last unmount: the
\* root it unmounted, and whether its completion notification has since run.
NoRun(h) == [h EXCEPT !.rendered = FALSE, !.fresh = TRUE, !.creates = 0, !.handles = {}]

NoHist == [rendered |-> FALSE, fresh |-> TRUE, creates |-> 0, handles |-> {},
           unmounted |-> NULL, notified |-> FALSE]

\* render(element, container)
Render(element, container) ==
  LET root0 == roots[container]
      e1 == IF NoRoot(root0) THEN CreateContainer(Engine, container) ELSE Engine
      root == IF NoRoot(root0) THEN e1.created ELSE root0
      e2 == UpdateContainer(e1, element, root, NULL)
  IN  /\ e2.created <= MaxRoots
      /\ \A h \in Handles : Len(e2.queue[h]) <= MaxPending
      /\ roots' = [roots EXCEPT ![container] = root]
      /\ created' = e2.created
      /\ queue' = e2.queue
      /\ engineLog' = e2.log
      /\ tree' = tree
      /\ hist' = [hist EXCEPT ![container] =
                    [@ EXCEPT !.rendered = TRUE,
                              !.creates = @ + (e2.created - created),
                              !.handles = @ \cup {root},
                              !.unmounted = IF hist[container].notified THEN NULL ELSE @,
                              !.notified = FALSE]]
      /\ last' = [op |-> "render", target |-> container, element |-> element,
                  raised |-> e2.raised,
                  unmounted |-> IF hist[container].notified
                                THEN hist[container].unmounted ELSE NULL]
      /\ UNCHANGED <<graphVars, propVars, loopVars>>

\* The body of unmountComponentAtNode(container).
UnmountAt(container) ==
  LET root == roots[container]
      e1 == IF HasRoot(root) THEN UpdateContainer(Engine, NoTree, root, container) ELSE Engine
  IN  /\ \A h \in Handles : Len(e1.queue[h]) <= MaxPending
      /\ roots' = roots
      /\ created' = e1.created
      /\ queue' = e1.queue
      /\ engineLog' = e1.log
      /\ tree' = tree
      /\ hist' = [hist EXCEPT ![container] =
                    [NoRun(@) EXCEPT !.fresh = (root = NULL),
                                     !.unmounted = IF root = NULL THEN @ ELSE root,
                                     !.notified = IF root = NULL THEN @ ELSE FALSE]]
      /\ last' = [op |-> "unmountComponentAtNode", target |-> container,
                  element |-> NoTree, raised |-> e1.raised]
      /\ UNCHANGED <<graphVars, propVars>>

\* unmountComponentAtNode(container), called on its own.
UnmountComponentAtNode(container) ==
  /\ UnmountAt(container)
  /\ UNCHANGED loopVars

\* The engine performs the updates scheduled on a root: it commits the last
\* element and delivers the completion notifications.
PerformWork(root) ==
  /\ queue[root] # <<>>
  /\ tree' = [tree EXCEPT ![root] = queue[root][Len(queue[root])].element]
  /\ roots' = RunCallbacks(roots, queue[root])
  /\ queue' = [queue EXCEPT ![root] = <<>>]
  /\ created' = created
  /\ engineLog' = <<>>
  /\ hist' = [t \in Targets |->
                IF t \in Callbacks(queue[root])
                THEN [NoRun(hist[t]) EXCEPT !.notified = TRUE]
                ELSE hist[t]]
  /\ last' = [op |-> "performWork", target |-> root, element |-> tree'[root],
              raised |-> FALSE]
  /\ UNCHANGED <<graphVars, propVars, loopVars>>

(***************************************************************************)
(* Actions: one per hook.                                                  *)
(***************************************************************************)
\* The engine's view of the graph: what its calls so far should have built.
InSync == \A p \in Parents : children[p] = refList[p]

\* The engine goes on calling hooks while its calls were its own and the graph
\* is the one it built; a call that breaks either ends the run.
Call(op, p, c, b, g) ==
  /\ refOK
  /\ InSync
  /\ children' = g.children
  /\ parent' = g.parent
  /\ dispatched' = g.events
  /\ last' = [op |-> op, parent |-> p, child |-> c, before |-> b, raised |-> g.raised]
  /\ UNCHANGED <<rootVars, propVars, loopVars>>

Here == Graph(children, parent)

AppendCall(op, p, c) ==
  /\ Call(op, p, c, NULL, AppendHook(Here, p, c))
  /\ refOK' = (refOK /\ EngineCall(refList, p, c))
  /\ refList' = IF refOK' THEN RefAppend(refList, p, c) ELSE refList

AppendInitialChild(p, c) == AppendCall("appendInitialChild", p, c)

AppendChild(p, c) == AppendCall("appendChild", p, c)

AppendChildToContainer(p, c) == AppendCall("appendChildToContainer", p, c)

InsertBefore(p, c, b) ==
  /\ Call("insertBefore", p, c, b, InsertBeforeHook(Here, p, c, b))
  /\ refOK' = (refOK /\ EngineInsert(refList, p, c, b))
  /\ refList' = IF refOK' THEN RefInsertBefore(refList, p, c, b) ELSE refList

RemoveCall(op, p, c) ==
  /\ Call(op, p, c, NULL, RemoveHook(Here, p, c))
  /\ refOK' = (refOK /\ p \in Parents)
  /\ refList' = IF refOK' THEN RefRemove(refList, p, c) ELSE refList

RemoveChild(p, c) == RemoveCall("removeChild", p, c)

RemoveChildFromContainer(p, c) == RemoveCall("removeChildFromContainer", p, c)

(***************************************************************************)
(* The Property Applier.                                                   *)
(*                                                                         *)
(* Strings are sequences of one-character strings, so that split, reverse, *)
(* toLowerCase, startsWith and upperFirst are computed as the source       *)
(* computes them.  A value is an object identity, a primitive, a function  *)
(* or undefined.  The heap maps an object to its fields.  A property bag   *)
(* is the sequence of its entries in key declaration order; an entry       *)
(* carries, beside the key and the value the code reads, what the bag's    *)
(* author means by them: the lower-case field path addressed and the kind  *)
(* of the entry.  The code never reads these two.                          *)
(***************************************************************************)
Undefined == "undefined"
NaN == "NaN"
Functions == {"fn"}

\* The instance, the sub-objects its constructor gives it, and the materials the
\* application creates and passes in property bags.
Instance == "node"
ObjectIds == {"node", "mat0", "rot", "matA", "matB"}

UpperCase == <<"A", "B", "C", "D", "E", "F", "G", "H", "I", "J", "K", "L", "M",
               "N", "O", "P", "Q", "R", "S", "T", "U", "V", "W", "X", "Y", "Z">>
LowerCase == <<"a", "b", "c", "d", "e", "f", "g", "h", "i", "j", "k", "l", "m",
               "n", "o", "p", "q", "r", "s", "t", "u", "v", "w", "x", "y", "z">>

Letters == 1..Len(UpperCase)

LowerOf == [ch \in {UpperCase[i] : i \in Letters} |->
              LowerCase[CHOOSE i \in Letters : UpperCase[i] = ch]]

UpperOf == [ch \in {LowerCase[i] : i \in Letters} |->
              UpperCase[CHOOSE i \in Letters : LowerCase[i] = ch]]

CharLower(ch) == IF ch \in DOMAIN LowerOf THEN LowerOf[ch] ELSE ch

CharUpper(ch) == IF ch \in DOMAIN UpperOf THEN UpperOf[ch] ELSE ch

\* Faulty variant: the segment is used as written.
ToLowerCaseNot(str) == str

\* String.prototype.toLowerCase
ToLowerCase(str) == [i \in 1..Len(str) |-> CharLower(str[i])]

\* lodash upperFirst
UpperFirst(str) ==
  IF str = <<>> THEN str ELSE <<CharUpper(Head(str))>> \o Tail(str)

\* String.prototype.startsWith
StartsWith(str, prefix) ==
  /\ Len(str) >= Len(prefix)
  /\ SubSeq(str, 1, Len(prefix)) = prefix

\* String.prototype.split(sep) for a one-character separator: the pieces between
\* the separators, empty pieces kept.
RECURSIVE SplitFrom(_, _, _, _)
SplitFrom(str, sep, i, piece) ==
  IF i > Len(str) THEN <<piece>>
  ELSE IF str[i] = sep THEN <<piece>> \o SplitFrom(str, sep, i + 1, <<>>)
  ELSE SplitFrom(str, sep, i + 1, Append(piece, str[i]))

Split(str, sep) == SplitFrom(str, sep, 1, <<>>)

\* Array.prototype.reverse
Reverse(s) == [i \in 1..Len(s) |-> s[Len(s) + 1 - i]]

(***************************************************************************)
(* Property bags.                                                          *)
(***************************************************************************)
\* Object.keys(bag)
ObjectKeys(bag) == [i \in 1..Len(bag) |-> bag[i].key]

HasKey(bag, key) == \E i \in 1..Len(bag) : bag[i].key = key

\* bag[key]
Prop(bag, key) ==
  IF HasKey(bag, key)
  THEN bag[CHOOSE i \in 1..Len(bag) : bag[i].key = key].value
  ELSE Undefined

\* a === b
StrictEquals(a, b) == a = b /\ a # NaN

\* typeof v === 'function'
IsFunction(v) == v \in Functions

Range(s) == {s[i] : i \in 1..Len(s)}

KeyChildren == <<"c", "h", "i", "l", "d", "r", "e", "n">>
KeyKey == <<"k", "e", "y">>
KeyRef == <<"r", "e", "f">>
PrefixOn == <<"o", "n">>
Hyphen == "-"

\* Faulty variant: the list of keys always left out lacks 'key'.
ReservedKeysShort == <<KeyChildren, KeyRef>>

\* 'children', 'key', 'ref'
ReservedKeys == <<KeyChildren, KeyKey, KeyRef>>

\* Faulty variant: no key counts as unchanged, every key of the new bag is diffed as new.
SamePropsNone(newProps, oldProps) == <<>>

\* Object.keys(newProps).filter(key => newProps[key] === oldProps[key])
SameProps(newProps, oldProps) ==
  SelectSeq(ObjectKeys(newProps),
            LAMBDA key : StrictEquals(Prop(newProps, key), Prop(oldProps, key)))

\* Object.keys(newProps).filter(key => typeof newProps[key] === 'function' && key.startsWith('on'))
HandlerKeys(newProps) ==
  SelectSeq(ObjectKeys(newProps),
            LAMBDA key : IsFunction(Prop(newProps, key)) /\ StartsWith(key, PrefixOn))

\* Faulty variant: the entries that remain come out in the opposite order.
OmitReversed(bag, keys) ==
  LET kept == SelectSeq(bag, LAMBDA e : e.key \notin {keys[i] : i \in 1..Len(keys)})
  IN  [i \in 1..Len(kept) |-> kept[Len(kept) + 1 - i]]

\* lodash omit(bag, keys): the bag without the entries of those keys, order kept.
Omit(bag, keys) == SelectSeq(bag, LAMBDA e : e.key \notin Range(keys))

\* Faulty variant: the keys the new bag no longer has are kept as candidates, with
\* the value the new bag holds for them (undefined).
FilteredPropsClearing(newProps, oldProps) ==
  Omit(newProps, SameProps(newProps, oldProps) \o HandlerKeys(newProps) \o ReservedKeys)
    \o [i \in 1..Len(SelectSeq(oldProps, LAMBDA e : ~HasKey(newProps, e.key))) |->
          [SelectSeq(oldProps, LAMBDA e : ~HasKey(newProps, e.key))[i]
             EXCEPT !.value = Undefined]]

FilteredProps(newProps, oldProps) ==
  Omit(newProps, SameProps(newProps, oldProps) \o HandlerKeys(newProps) \o ReservedKeys)

(***************************************************************************)
(* Field access on the heap.  An applier value a is [heap, writes, raised].*)
(***************************************************************************)
TypeError == "TypeError"

IsObject(v) == v \in ObjectIds

\* acc[name]: a TypeError on undefined, undefined on a primitive or a missing field.
GetField(h, acc, name) ==
  IF acc = TypeError \/ acc = Undefined THEN TypeError
  ELSE IF IsObject(acc) /\ name \in DOMAIN h[acc] THEN h[acc][name]
  ELSE Undefined

\* entries.reduce((acc, key) => acc[key.toLowerCase()], instance)
RECURSIVE Reduce(_, _, _)
Reduce(h, entries, acc) ==
  IF entries = <<>> THEN acc
  ELSE Reduce(h, Tail(entries), GetField(h, acc, ToLowerCase(Head(entries))))

SetField(h, obj, name, value) ==
  [h EXCEPT ![obj] = [f \in DOMAIN @ \cup {name} |-> IF f = name THEN value ELSE @[f]]]

\* target[targetName.toLowerCase()] = value
Assign(a, target, name, entry) ==
  IF IsObject(target)
  THEN [a EXCEPT !.heap = SetField(@, target, name, entry.value),
                 !.writes = Append(@, [obj |-> target, field |-> name, entry |-> entry])]
  ELSE [a EXCEPT !.raised = TRUE]

\* const [targetName, ...entries] = key.split('-').reverse()
\* const target = entries.reverse().reduce(..., instance)
ResolveAndAssign(a, instance, entry, parts) ==
  Assign(a, Reduce(a.heap, Reverse(Tail(parts)), instance), ToLowerCase(Head(parts)), entry)

\* The body of the map callback: resolve the path of one entry and assign.
ApplyEntry(a, instance, entry) ==
  ResolveAndAssign(a, instance, entry, Reverse(Split(entry.key, Hyphen)))

\* Object.entries(filteredProps).map(...): in order, up to the first throw.
RECURSIVE ApplyEntries(_, _, _)
ApplyEntries(a, instance, entries) ==
  IF entries = <<>> \/ a.raised THEN a
  ELSE ApplyEntries(ApplyEntry(a, instance, Head(entries)), instance, Tail(entries))

\* applyProps(instance, newProps, oldProps)
ApplyProps(h, instance, newProps, oldProps) ==
  LET filteredProps == FilteredProps(newProps, oldProps)
      a == [heap |-> h, writes |-> <<>>, raised |-> FALSE]
  IN  IF Len(ObjectKeys(filteredProps)) > 0
      THEN ApplyEntries(a, instance, filteredProps)
      ELSE a

(***************************************************************************)
(* createInstance and commitUpdate.                                        *)
(***************************************************************************)
FieldM == <<"m">>
FieldC == <<"c">>
FieldR == <<"r">>
FieldX == <<"x">>

NoFields == [f \in {} |-> Undefined]

\* The constructors of the scene-graph namespace the model knows.
ThreeNamespace == {<<"M", "e", "s", "h">>}

\* Faulty variant: a fallback constructor stands in for a name the namespace lacks.
HasConstructorFallback(name) == TRUE

\* THREE[name] is a constructor
HasConstructor(name) == name \in ThreeNamespace

TypeMesh == <<"m", "e", "s", "h">>
TypeUnknown == <<"f", "o", "o">>
Types == {TypeMesh, TypeUnknown}

\* new THREE.Mesh(): the instance with a material and a rotation of its own.
Constructed(h) ==
  [h EXCEPT ![Instance] = (FieldM :> "mat0") @@ (FieldR :> "rot"),
            !["mat0"] = (FieldC :> "white"),
            !["rot"] = (FieldX :> "0")]

\* Two bags hold the same value for every key.
SameEntries(b1, b2) ==
  /\ \A i \in 1..Len(b1) : \E j \in 1..Len(b2) :
       b2[j].key = b1[i].key /\ b2[j].value = b1[i].value
  /\ \A j \in 1..Len(b2) : \E i \in 1..Len(b1) :
       b1[i].key = b2[j].key /\ b1[i].value = b2[j].value

\* The instance is a scene node: its parent and children fields are the scene
\* graph's own.  The node the instance stands for, the two field names, and the
\* values a bag can hold for them (a reference to a node, an empty array).
InstanceNode == MaxNodes

FieldParent == <<"p", "a", "r", "e", "n", "t">>

NodeOf(v) == IF v = "n1" THEN 1 ELSE IF v = "n2" THEN 2 ELSE NULL

\* target[name] = value seen from the scene graph: a write to the instance's parent
\* or children field changes the graph, any other write leaves it alone.
RECURSIVE GraphAfter(_, _)
GraphAfter(g, ws) ==
  IF ws = <<>> THEN g
  ELSE LET w == Head(ws)
       IN  GraphAfter(
             IF w.obj = Instance /\ w.field = FieldParent
             THEN [g EXCEPT !.parent[InstanceNode] = NodeOf(w.entry.value)]
             ELSE IF w.obj = Instance /\ w.field = KeyChildren
             THEN [g EXCEPT !.children[InstanceNode] = <<>>]
             ELSE g,
             Tail(ws))

\* createInstance(type, props), called by the engine for a host element it has no
\* instance for.
CreateInstance(type, props) ==
  /\ status = "none"
  /\ IF HasConstructor(UpperFirst(type))
     THEN \E a \in {ApplyProps(Constructed(heap), Instance, props, <<>>)} :
            /\ heap' = a.heap
            /\ writes' = a.writes
            /\ status' = IF a.raised THEN "failed" ELSE "live"
            /\ last' = [op |-> "createInstance", type |-> type, raised |-> a.raised,
                        same |-> FALSE]
            /\ \E g \in {GraphAfter(Here, a.writes)} :
                 children' = g.children /\ parent' = g.parent
     ELSE /\ heap' = heap
          /\ writes' = <<>>
          /\ status' = "failed"
          /\ last' = [op |-> "createInstance", type |-> type, raised |-> TRUE,
                      same |-> FALSE]
          /\ UNCHANGED <<children, parent>>
  /\ memo' = props
  /\ UNCHANGED <<dispatched, refList, refOK, rootVars, loopVars>>

\* commitUpdate(instance, updatePayload, type, oldProps, newProps), called by the
\* engine on a live instance with the bag it last applied as oldProps.  An update
\* that raises ends the run: the error leaves the engine's commit.
CommitUpdate(newProps) ==
  /\ status = "live"
  /\ \E a \in {ApplyProps(heap, Instance, newProps, memo)} :
       /\ heap' = a.heap
       /\ writes' = a.writes
       /\ status' = IF a.raised THEN "failed" ELSE "live"
       /\ last' = [op |-> "commitUpdate", type |-> TypeMesh, raised |-> a.raised,
                   same |-> SameEntries(memo, newProps),
                   removed |-> \E i \in 1..Len(memo) :
                                 memo[i].kind = "plain" /\ ~HasKey(newProps, memo[i].key)]
       /\ \E g \in {GraphAfter(Here, a.writes)} :
            children' = g.children /\ parent' = g.parent
  /\ memo' = newProps
  /\ UNCHANGED <<dispatched, refList, refOK, rootVars, loopVars>>

\* An entry of a bag: key and value, the field path its author addresses and its
\* kind ("plain", "handler" or "structural").
Entry(key, value, path, kind) ==
  [key |-> key, value |-> value, path |-> path, kind |-> kind]

\* material={matA}, material={matB}, Material-Color={red}, rotation-x={NaN}, and
\* a path through a field the instance does not have.
WriteEntries ==
  { Entry(<<"m">>, "matA", <<FieldM>>, "plain"),
    Entry(<<"m">>, "matB", <<FieldM>>, "plain"),
    Entry(<<"M", "-", "C">>, "red", <<FieldM, FieldC>>, "plain"),
    Entry(<<"r", "-", "x">>, NaN, <<FieldR, FieldX>>, "plain"),
    Entry(<<"z", "-", "x">>, "1", <<<<"z">>, FieldX>>, "plain") }

\* onC={fn}, onC={1}, children, key, ref, and material={matA}.
FilterEntries ==
  { Entry(<<"o", "n", "C">>, "fn", <<<<"o", "n", "c">>>>, "handler"),
    Entry(<<"o", "n", "C">>, "1", <<<<"o", "n", "c">>>>, "plain"),
    Entry(KeyChildren, "elements", <<KeyChildren>>, "structural"),
    Entry(KeyKey, "k", <<KeyKey>>, "structural"),
    Entry(KeyRef, "refObject", <<KeyRef>>, "structural"),
    Entry(<<"m">>, "matA", <<FieldM>>, "plain") }

\* The bags of at most MaxBag entries over a set of entries, no key twice.
BagsOver(entries) ==
  UNION { { b \in [1..n -> entries] :
              \A i, j \in 1..n : i # j => b[i].key # b[j].key } : n \in 0..MaxBag }

\* parent={n1}, parent={n2}, Children={[]}, material={matA}, material={matB}.
StructEntries ==
  { Entry(FieldParent, "n1", <<FieldParent>>, "plain"),
    Entry(FieldParent, "n2", <<FieldParent>>, "plain"),
    Entry(<<"C", "h", "i", "l", "d", "r", "e", "n">>, "empty", <<KeyChildren>>, "plain"),
    Entry(<<"m">>, "matA", <<FieldM>>, "plain"),
    Entry(<<"m">>, "matB", <<FieldM>>, "plain") }

WriteBags == BagsOver(WriteEntries)

StructBags == BagsOver(StructEntries)

FilterBags == BagsOver(FilterEntries)

InitProps ==
  /\ heap = [o \in ObjectIds |->
               IF o \in {"matA", "matB"} THEN (FieldC :> "white") ELSE NoFields]
  /\ memo = <<>>
  /\ status = "none"
  /\ writes = <<>>

(***************************************************************************)
(* The Canvas component: its render loop and its effects.  The platform    *)
(* runs a requested frame callback at some later time, once.               *)
(***************************************************************************)
\* The scene the Canvas creates and mounts its children on.
Scene == CHOOSE t \in Targets : \A u \in Targets : t <= u

\* Faulty variant: the render loop does not look at the flag.
IsActiveAlways(a) == TRUE

\* the negation of  if (!active.current) return
IsActive(a) == a

\* requestAnimationFrame(renderLoop)
RequestAnimationFrame(n) == n + 1

\* The first effect: set up the renderer and kick off the render loop.
CanvasMount ==
  /\ phase = "unmounted"
  /\ phase' = "mounted"
  /\ pending' = RequestAnimationFrame(pending)
  /\ last' = [op |-> "canvasMount"]
  /\ UNCHANGED <<active, frames, graphVars, rootVars, propVars>>

\* The effect on [children]: render(children, scene).
CanvasChildren(element) ==
  /\ phase = "mounted"
  /\ Render(element, Scene)

\* renderLoop, run by the platform for a requested frame.
RenderLoop ==
  /\ pending > 0
  /\ IsActive(active) => frames < MaxFrames
  /\ IF ~IsActive(active)
     THEN /\ pending' = pending - 1
          /\ frames' = frames
          /\ last' = [op |-> "renderLoop", rendered |-> FALSE, requested |-> 0]
     ELSE /\ pending' = RequestAnimationFrame(pending - 1)
          /\ frames' = frames + 1
          /\ last' = [op |-> "renderLoop", rendered |-> TRUE, requested |-> 1]
  /\ UNCHANGED <<active, phase, graphVars, rootVars, propVars>>

\* The cleanup of the first effect: active.current = false; unmountComponentAtNode(scene).
CanvasTeardown ==
  /\ phase = "mounted"
  /\ phase' = "torn"
  /\ active' = FALSE
  /\ UnmountAt(Scene)
  /\ UNCHANGED <<pending, frames>>

InitLoop ==
  /\ active = TRUE
  /\ pending = 0
  /\ frames = 0
  /\ phase = "unmounted"

(***************************************************************************)
(* Initial states and specifications.                                      *)
(***************************************************************************)
\* The scene before any hook has run: no node is attached.
InitScene ==
  /\ children = [n \in Nodes |-> <<>>]
  /\ parent = [n \in Nodes |-> NULL]
  /\ dispatched = <<>>
  /\ refList = [p \in Parents |-> <<>>]
  /\ refOK = TRUE

InitRoots ==
  /\ roots = [t \in Targets |-> NULL]
  /\ created = 0
  /\ queue = [h \in Handles |-> <<>>]
  /\ tree = [h \in Handles |-> NoTree]
  /\ engineLog = <<>>
  /\ hist = [t \in Targets |-> NoHist]

Init ==
  /\ InitScene
  /\ InitRoots
  /\ InitProps
  /\ InitLoop
  /\ last = [op |-> "init"]

NextGraph ==
  \E p \in Parents \cup {NULL}, c \in Nodes \cup {NULL} :
    \/ AppendInitialChild(p, c)
    \/ AppendChild(p, c)
    \/ AppendChildToContainer(p, c)
    \/ \E b \in Nodes \cup {NULL} : InsertBefore(p, c, b)
    \/ RemoveChild(p, c)
    \/ RemoveChildFromContainer(p, c)

SpecGraph == Init /\ [][NextGraph]_vars

NextRoots ==
  \/ \E t \in Targets, el \in Elements : Render(el, t)
  \/ \E t \in Targets : UnmountComponentAtNode(t)
  \/ \E h \in Handles : PerformWork(h)

SpecRoots == Init /\ [][NextRoots]_vars

NextProps ==
  \/ \E type \in Types, props \in WriteBags : CreateInstance(type, props)
  \/ \E newProps \in WriteBags : CommitUpdate(newProps)

SpecProps == Init /\ [][NextProps]_vars

NextFilter ==
  \/ \E type \in Types, props \in FilterBags : CreateInstance(type, props)
  \/ \E newProps \in FilterBags : CommitUpdate(newProps)

SpecFilter == Init /\ [][NextFilter]_vars

NextLoop ==
  \/ CanvasMount
  \/ \E el \in Elements : CanvasChildren(el)
  \/ RenderLoop
  \/ CanvasTeardown
  \/ \E h \in Handles : PerformWork(h)

SpecLoop == Init /\ [][NextLoop]_vars

NextStruct ==
  \/ \E type \in Types, props \in StructBags : CreateInstance(type, props)
  \/ \E newProps \in StructBags : CommitUpdate(newProps)

SpecStruct == Init /\ [][NextStruct]_vars

(***************************************************************************)
(* Claims about the structural hooks (checked under SpecGraph).            *)
(***************************************************************************)
StructuralHooks ==
  {"appendInitialChild", "appendChild", "appendChildToContainer",
   "insertBefore", "removeChild", "removeChildFromContainer"}

\* C1 (as claimed): after every call of a run of engine calls on a parent, moves
\* of an attached child included, the parent's children sequence equals the
\* reference list driven by the same calls.
C1_SiblingOrder ==
  refOK => \A p \in Parents : children[p] = refList[p]

\* C2: insertBefore(parent, child, beforeChild) with a truthy child turns children
\* S1 ++ [beforeChild] ++ S2 into S1 ++ [child, beforeChild] ++ S2, whatever the
\* split, and leaves child.parent = parent.
C2_InsertBefore ==
  [][(/\ last'.op = "insertBefore"
      /\ last'.parent \in Parents /\ last'.child \in Nodes /\ last'.before \in Nodes)
       => LET p == last'.parent
              c == last'.child
              b == last'.before
          IN  /\ parent'[c] = p
              /\ \A i \in 1..Len(children[p]) :
                   children[p][i] = b =>
                     children'[p] = SubSeq(children[p], 1, i - 1) \o <<c, b>>
                                      \o SubSeq(children[p], i + 1, Len(children[p]))
    ]_vars

\* C2 witness: insertBefore has put a fresh child between two siblings in place
\* ([A, C] became [A, B, C]).
C2_Witness ==
  /\ last.op = "insertBefore"
  /\ last.parent \in Parents /\ last.child \in Nodes /\ last.before \in Nodes
  /\ Len(children[last.parent]) = 3
  /\ children[last.parent][2] = last.child
  /\ children[last.parent][3] = last.before
  /\ children[last.parent][1] \notin {last.child, last.before}
  /\ parent[last.child] = last.parent

\* C10: each of the six structural hooks called with a falsy child leaves every
\* children sequence and every parent back-reference unchanged, dispatches no
\* event and does not raise.
C10_FalsyChildNoOp ==
  [][(last'.op \in StructuralHooks /\ last'.child = NULL)
       => /\ children' = children
          /\ parent' = parent
          /\ dispatched' = <<>>
          /\ ~last'.raised
    ]_vars

\* C10 witness: a hook was called with a falsy child (and a falsy parent) on a
\* graph that has children to lose.
C10_Witness ==
  /\ last.op \in StructuralHooks
  /\ last.child = NULL
  /\ last.parent = NULL
  /\ Len(children[1]) >= 2

C5_UnmountUnregistered ==
  [][\A t \in Targets :
       (/\ last'.op = "unmountComponentAtNode" /\ last'.target = t
        /\ roots[t] = NULL)
       => /\ engineLog' = <<>>
          /\ ~last'.raised
          /\ roots' = roots
          /\ UNCHANGED <<created, queue, tree>>
          /\ UNCHANGED <<children, parent>>
    ]_vars

\* C5 witness: unmountComponentAtNode ran on an unregistered target while another
\* target was mounted.
C5_Witness ==
  /\ last.op = "unmountComponentAtNode"
  /\ roots[last.target] = NULL
  /\ \E t \in Targets : roots[t] # NULL /\ tree[roots[t]] # NoTree

(***************************************************************************)
(* Claims about the Property Applier (checked under SpecProps, and under   *)
(* SpecFilter for the handler and structural keys).                        *)
(***************************************************************************)
\* The value found by following a path of field names from a value.
RECURSIVE Follow(_, _, _)
Follow(h, v, path) ==
  IF path = <<>> THEN v
  ELSE IF v \in ObjectIds /\ Head(path) \in DOMAIN h[v]
       THEN Follow(h, h[v][Head(path)], Tail(path))
       ELSE Undefined

Front(s) == SubSeq(s, 1, Len(s) - 1)

ValueIn(bag, key) ==
  IF \E i \in 1..Len(bag) : bag[i].key = key
  THEN (CHOOSE e \in Range(bag) : e.key = key).value
  ELSE Undefined

\* A candidate write: not a handler, not structural, and not the value the old
\* bag holds for the key (NaN is never the value held).
Candidate(e, oldProps) ==
  /\ e.kind = "plain"
  /\ ~(e.value = ValueIn(oldProps, e.key) /\ e.value # NaN)

\* The writes the nested-path rule prescribes for the candidates of a bag, in
\* order, each resolved on the heap the earlier ones left; ok is FALSE when a
\* candidate's lookup chain does not reach an object.
RECURSIVE Prescribed(_, _, _)
Prescribed(r, bag, oldProps) ==
  IF bag = <<>> \/ ~r.ok THEN r
  ELSE LET e == Head(bag)
           obj == Follow(r.heap, Instance, Front(e.path))
           field == e.path[Len(e.path)]
       IN  IF ~Candidate(e, oldProps) THEN Prescribed(r, Tail(bag), oldProps)
           ELSE IF obj \notin ObjectIds THEN [r EXCEPT !.ok = FALSE]
           ELSE Prescribed(
                  [r EXCEPT !.heap[obj] = [f \in DOMAIN @ \cup {field} |->
                                             IF f = field THEN e.value ELSE @[f]],
                            !.writes = Append(@, [obj |-> obj, field |-> field, entry |-> e])],
                  Tail(bag), oldProps)

PrescribedFrom(h, bag, oldProps) ==
  Prescribed([ok |-> TRUE, heap |-> h, writes |-> <<>>], bag, oldProps)

\* C6 (as claimed): after a commitUpdate that returned, every key of the new bag
\* that is neither a handler nor children/key/ref reads back its value when its
\* path is resolved from the node.
C6_InLineWithNewBag ==
  (last.op = "commitUpdate" /\ ~last.raised) =>
    \A i \in 1..Len(memo) :
      memo[i].kind = "plain" => Follow(heap, Instance, memo[i].path) = memo[i].value

\* C7 (as claimed): commitUpdate with an old and a new bag that hold the same
\* value for every key writes nothing to the node nor to any object reachable
\* from it.
C7_NoOpUpdateOriginal ==
  [][(last'.op = "commitUpdate" /\ SameEntries(memo, memo'))
       => writes' = <<>> /\ heap' = heap
    ]_vars

\* C7 (amended): commitUpdate with an old and a new bag that hold the same value
\* for every key, no value being NaN (which is not identical to itself under
\* ===), writes nothing to the node nor to any object reachable from it.
C7_NoOpUpdate ==
  [][(/\ last'.op = "commitUpdate"
      /\ SameEntries(memo, memo')
      /\ \A i \in 1..Len(memo') : memo'[i].value # NaN)
       => writes' = <<>> /\ heap' = heap /\ ~last'.raised
    ]_vars

\* C7 witness: a commitUpdate whose two bags held the same two or more entries,
\* a plain one among them, none NaN.
C7_Witness ==
  /\ last.op = "commitUpdate"
  /\ last.same
  /\ Len(memo) >= 2
  /\ \E i \in 1..Len(memo) : memo[i].kind = "plain"
  /\ \A i \in 1..Len(memo) : memo[i].value # NaN
  /\ writes = <<>>

\* C8: applyProps performs, for every candidate key s1-...-sn whose lookup chain
\* reaches an object, exactly one write, of the value as given, to the field
\* lower-case(sn) of the object reached through lower-case(s1) ... lower-case(s(n-1)),
\* in the bag's order, and writes nowhere else.
C8_NestedPathWrite ==
  [][(last'.op \in {"createInstance", "commitUpdate"} /\ last'.type = TypeMesh)
       => LET pre == IF last'.op = "createInstance" THEN Constructed(heap) ELSE heap
              r == PrescribedFrom(pre, memo', memo)
          IN  r.ok => /\ ~last'.raised
                      /\ writes' = r.writes
                      /\ heap' = r.heap
    ]_vars

\* C8 witness: Material-Color = red was the one candidate and was written into
\* the colour field of the instance's material, and nowhere else.
C8_Witness ==
  /\ last.op = "commitUpdate"
  /\ ~last.raised
  /\ Len(writes) = 1
  /\ writes[1].entry.key = <<"M", "-", "C">>
  /\ writes[1].obj = heap[Instance][FieldM]
  /\ writes[1].field = FieldC
  /\ heap[writes[1].obj][FieldC] = "red"

\* C9: applyProps writes nothing for a key whose value is callable and whose name
\* starts with 'on', nor for children, key and ref; a bag of only such keys
\* produces no write at all.
C9_HandlerStructuralExclusion ==
  /\ \A i \in 1..Len(writes) : writes[i].entry.kind = "plain"
  /\ (\A i \in 1..Len(memo) : memo[i].kind # "plain") => writes = <<>>
  /\ \A f \in DOMAIN heap[Instance] :
       /\ f \notin {KeyChildren, KeyKey, KeyRef}
       /\ heap[Instance][f] \notin Functions

\* C9 witness: createInstance applied {onC: fn, children, key} against the empty
\* bag and wrote nothing.
C9_Witness ==
  /\ last.op = "createInstance"
  /\ ~last.raised
  /\ Len(memo) = 3
  /\ \E i \in 1..3 : memo[i].kind = "handler"
  /\ \E i \in 1..3 : memo[i].key = KeyChildren
  /\ \E i \in 1..3 : memo[i].key = KeyKey
  /\ writes = <<>>

\* C17: the candidate writes of a bag are applied in the bag's declaration order,
\* each path resolved on the state the earlier writes left: when material and
\* material-color are both candidates, material declared first and naming another
\* object than the one in place, the colour is written to the new material and
\* the replaced material is left as it was.
C17_DeclarationOrder ==
  [][LET pre == IF last'.op = "createInstance" THEN Constructed(heap) ELSE heap
         old == IF last'.op = "createInstance" THEN <<>> ELSE memo
         replaced == pre[Instance][FieldM]
     IN  (last'.op \in {"createInstance", "commitUpdate"} /\ last'.type = TypeMesh
          /\ ~last'.raised)
         => \A i, j \in 1..Len(memo') :
              (/\ i < j
               /\ memo'[i].path = <<FieldM>> /\ Candidate(memo'[i], old)
               /\ memo'[j].path = <<FieldM, FieldC>> /\ Candidate(memo'[j], old)
               /\ memo'[i].value # replaced)
              => /\ heap'[memo'[i].value][FieldC] = memo'[j].value
                 /\ heap'[replaced] = pre[replaced]
                 /\ \E a, b \in 1..Len(writes') :
                      /\ a < b
                      /\ writes'[a].entry = memo'[i]
                      /\ writes'[b].entry = memo'[j]
                      /\ writes'[b].obj = memo'[i].value
    ]_vars

\* C17 witness: a commitUpdate replaced the material by matB and then wrote red
\* into matB's colour; the other materials kept their own colour.
C17_Witness ==
  /\ last.op = "commitUpdate"
  /\ ~last.raised
  /\ Len(writes) >= 2
  /\ writes[1].entry.path = <<FieldM>> /\ writes[1].entry.value = "matB"
  /\ writes[2].entry.path = <<FieldM, FieldC>> /\ writes[2].obj = "matB"
  /\ heap["matB"][FieldC] = "red"
  /\ heap["matA"][FieldC] = "white" /\ heap["mat0"][FieldC] = "white"

\* C18: a key the old bag has and the new bag lacks causes no write: commitUpdate
\* writes nothing to the field the key addressed, which keeps the value it had.
C18_RemovedKeyNoWrite ==
  [][(last'.op = "commitUpdate")
       => \A i \in 1..Len(memo) :
            LET e == memo[i]
                obj == Follow(heap, Instance, Front(e.path))
                field == e.path[Len(e.path)]
            IN  (e.kind = "plain" /\ ~HasKey(memo', e.key) /\ obj \in ObjectIds)
                => /\ \A j \in 1..Len(writes') :
                        /\ writes'[j].entry.key # e.key
                        /\ ~(writes'[j].obj = obj /\ writes'[j].field = field)
                   /\ (field \in DOMAIN heap[obj]) = (field \in DOMAIN heap'[obj])
                   /\ field \in DOMAIN heap[obj] => heap'[obj][field] = heap[obj][field]
    ]_vars

\* C18 witness: a commitUpdate whose new bag {rotation-x} lacked a key of the old
\* bag; the material was never replaced, so the key was Material-Color, and the
\* material's colour is still the red the old bag wrote.
C18_Witness ==
  /\ last.op = "commitUpdate"
  /\ ~last.raised
  /\ last.removed
  /\ Len(memo) = 1
  /\ memo[1].path = <<FieldR, FieldX>>
  /\ writes # <<>>
  /\ heap[Instance][FieldM] = "mat0"
  /\ heap["mat0"][FieldC] = "red"

(***************************************************************************)
(* Claims about failures of createInstance and commitUpdate.               *)
(***************************************************************************)
\* C11: createInstance with a type whose upper-first name is no constructor of the
\* namespace raises; no instance comes back and none is attached, nothing is
\* written, the roots table is unchanged, and no createInstance follows the failure.
C11_UnresolvableType ==
  [][/\ (last'.op = "createInstance" /\ last'.type = TypeUnknown)
          => /\ last'.raised
             /\ status' = "failed"
             /\ writes' = <<>>
             /\ heap' = heap
             /\ UNCHANGED <<children, parent, roots>>
     /\ (status = "failed") => last'.op # "createInstance"
    ]_vars

\* C11 witness: createInstance('foo', props) with a non-empty bag has raised.
C11_Witness ==
  /\ last.op = "createInstance"
  /\ last.type = TypeUnknown
  /\ last.raised
  /\ Len(memo) >= 2
  /\ \E i \in 1..Len(memo) : memo[i].kind = "plain"

\* The lookup chain of an entry's path does not reach an object on heap h.
BadPath(h, e) == Follow(h, Instance, Front(e.path)) \notin ObjectIds

\* C12 (as claimed): a createInstance or commitUpdate whose bag has a candidate key
\* with a lookup chain that reaches no object raises, writes no field for that
\* key, and still performs the write of every other candidate key of the bag.
C12_BadPathLocal ==
  [][LET old == IF last'.op = "createInstance" THEN <<>> ELSE memo
     IN  (/\ last'.op \in {"createInstance", "commitUpdate"}
          /\ last'.type = TypeMesh
          /\ \E i \in 1..Len(memo') :
               Candidate(memo'[i], old) /\ BadPath(heap', memo'[i]))
         => /\ last'.raised
            /\ \A j \in 1..Len(writes') : ~BadPath(heap', writes'[j].entry)
            /\ \A i \in 1..Len(memo') :
                 (Candidate(memo'[i], old) /\ ~BadPath(heap', memo'[i]))
                   => \E j \in 1..Len(writes') : writes'[j].entry = memo'[i]
    ]_vars

(***************************************************************************)
(* Further claims about the structural hooks (checked under SpecGraph).    *)
(***************************************************************************)
\* C13 (as claimed): a structural hook called with a falsy parent, child or
\* beforeChild completes without raising and leaves every children sequence and
\* every parent back-reference unchanged.
C13_DefensiveNoOp ==
  [][(/\ last'.op \in StructuralHooks
      /\ \/ last'.parent = NULL
         \/ last'.child = NULL
         \/ last'.op = "insertBefore" /\ last'.before = NULL)
       => /\ ~last'.raised
          /\ children' = children
          /\ parent' = parent
    ]_vars

\* How many times node n occurs in the children sequences of all nodes.
Occurrences(n) ==
  Cardinality(UNION { { <<p, i>> : i \in {j \in DOMAIN children[p] : children[p][j] = n} } :
                      p \in Nodes })

\* C16 (as claimed): after any sequence of append, insertBefore and remove calls
\* with truthy arguments (here: the calls the engine issues; its calls with a
\* falsy child change nothing), every node occurs at most once in all children
\* sequences together, and n is in p.children exactly when n.parent is p.
C16_WellFormed ==
  refOK =>
    /\ \A n \in Nodes : Occurrences(n) <= 1
    /\ \A n \in Nodes, p \in Nodes : InSeq(children[p], n) <=> parent[n] = p

(***************************************************************************)
(* Claims about commitUpdate and the scene graph (checked under            *)
(* SpecStruct).                                                            *)
(***************************************************************************)
\* C14 (as claimed): after a commitUpdate that returned, every node's children
\* sequence and parent back-reference are what they were before the call.
C14_NoStructuralChange ==
  [][(last'.op = "commitUpdate" /\ ~last'.raised)
       => children' = children /\ parent' = parent
    ]_vars

(***************************************************************************)
(* A further claim about the roots table (checked under SpecRoots).        *)
(***************************************************************************)
\* C15 (as claimed): under any interleaving of render, unmountComponentAtNode and
\* the engine's completion notifications, every root handle that holds a mounted
\* (non-null) tree is the one the roots table registers for its target.  A handle
\* is only ever registered for the target it was created for, so two handles of
\* one target are then never mounted together.
C15_NoDuplicateRoots ==
  \A h \in Handles :
    tree[h] # NoTree => \E t \in Targets : roots[t] = h

(***************************************************************************)
(* The render loop of the Canvas (checked under SpecLoop).                 *)
(***************************************************************************)
\* C19: before teardown every frame callback renders the scene and requests
\* exactly one next frame; once teardown has run, a frame callback neither
\* renders nor requests a frame, so the one callback still pending is the last;
\* at most one frame callback is ever pending.
C19_LoopShutdown ==
  [][/\ (last'.op = "renderLoop" /\ phase # "torn")
          => /\ last'.requested = 1 /\ last'.rendered
             /\ pending' = pending /\ frames' = frames + 1
     /\ (last'.op = "renderLoop" /\ phase = "torn")
          => /\ last'.requested = 0 /\ ~last'.rendered
             /\ pending' = 0 /\ frames' = frames
     /\ pending' <= 1
     /\ (phase = "torn" /\ pending = 0) => (pending' = 0 /\ frames' = frames)
    ]_vars

\* C19 witness: after two rendered frames and the teardown, the pending frame
\* callback has run and left nothing pending.
C19_Witness ==
  /\ last.op = "renderLoop"
  /\ phase = "torn"
  /\ ~last.rendered
  /\ frames = 2
  /\ pending = 0

====
